---- MODULE Spec2Model ----
(***************************************************************************)
(* redis-purge: scan the whole keyspace, match each key's value against a  *)
(* searchCondition, and list or delete the matching keys; with             *)
(* WAIT_AND_REDELETE the deleted keys are re-checked and re-deleted until  *)
(* CLEAN_DELETE_MIN consecutive passes find none of them.                  *)
(*                                                                         *)
(* The tool is one sequential thread; pc is its position.  The redis       *)
(* server is the variable store; every call the tool makes on it (DBSIZE,  *)
(* SCAN, GET/HGETALL, DEL, EXISTS) is one step and may fail.  Other redis  *)
(* clients are the Writer actions, which interleave between the calls.     *)
(*                                                                         *)
(* What the model takes of the server: SCAN walks a table of NumKeys slots *)
(* in pages of 1..MaxPage slots and returns the keys that exist in them,   *)
(* so a key that stays in the store is returned in exactly one page; a     *)
(* call that fails has changed nothing (a failed DEL leaves the key); DEL  *)
(* of a missing key succeeds.  A value is held as the bytes the access     *)
(* mode reads: the string itself, or hashAsBytes of a one-field hash.      *)
(*                                                                         *)
(* Spec is the tool run against a store of NumKeys keys.  MatchSpec is the *)
(* closure of Matcher applied to one value, over every searchCondition and *)
(* value up to MaxLen bytes.  E2ESpec is the README's list run over three  *)
(* keys holding "null" and "nullish".                                      *)
(***************************************************************************)
EXTENDS Integers, Sequences, FiniteSets, TLC

\* ------------------------------------------------------------------ bounds
NumKeys == 2          \* slots of the keyspace; a key is its slot number
MaxPage == 2          \* most slots one SCAN reply covers
MaxMinClean == 3      \* largest CLEAN_DELETE_MIN tried
MaxPass == 4          \* cap on deletePass, which the code leaves unbounded
MaxWrites == 1        \* writes the free-running writer makes in one run
MaxLen == 3           \* longest value and pattern the matcher is tried on

Keys == 1..NumKeys
NoValue == <<0>>              \* the key does not exist
Values == {<<1>>, <<1, 1>>}   \* the values a key can hold, as bytes 1..2
MinCleanValues == (0 - 1)..MaxMinClean

\* ------------------------------------------------------- searchCondition
\* Number of non-overlapping occurrences of sep in s from position i on.
RECURSIVE CountFrom(_, _, _)
CountFrom(s, sep, i) ==
    IF i + Len(sep) - 1 > Len(s) THEN 0
    ELSE IF SubSeq(s, i, i + Len(sep) - 1) = sep
         THEN 1 + CountFrom(s, sep, i + Len(sep))
         ELSE CountFrom(s, sep, i + 1)

\* Mutant: occurrences that overlap are all counted
Count_overlapping(s, sep) ==
    IF Len(sep) = 0 THEN Len(s) + 1
    ELSE Cardinality({i \in 1..Len(s) : i + Len(sep) - 1 <= Len(s)
                                         /\ SubSeq(s, i, i + Len(sep) - 1) = sep})

\* bytes.Count
Count(s, sep) == IF Len(sep) = 0 THEN Len(s) + 1 ELSE CountFrom(s, sep, 1)

\* Mutant: the size threshold is not looked at
Matcher_noFloor(s, value) ==
    IF Len(s.Search) = 0 THEN TRUE
    ELSE IF s.Occurrences <= 0 THEN value = s.Search
    ELSE Count(value, s.Search) >= s.Occurrences

\* Mutant: with Occurrences <= 0 a value that contains Search matches
Matcher_substring(s, value) ==
    IF Len(value) < s.SizeThreshold THEN FALSE
    ELSE IF Len(s.Search) = 0 THEN TRUE
    ELSE IF s.Occurrences <= 0 THEN Count(value, s.Search) >= 1
    ELSE Count(value, s.Search) >= s.Occurrences

\* Mutant: the empty pattern is matched like any other pattern
Matcher_emptyAsPattern(s, value) ==
    IF Len(value) < s.SizeThreshold THEN FALSE
    ELSE IF s.Occurrences <= 0 THEN value = s.Search
    ELSE Count(value, s.Search) >= s.Occurrences

\* The closure returned by searchCondition.Matcher
Matcher(s, value) ==
    IF Len(value) < s.SizeThreshold THEN FALSE
    ELSE IF Len(s.Search) = 0 THEN TRUE
    ELSE IF s.Occurrences <= 0 THEN value = s.Search
    ELSE Count(value, s.Search) >= s.Occurrences

Conditions ==
    { [AccessMode |-> "string", SizeThreshold |-> 0, Search |-> <<1>>, Occurrences |-> 0],
      [AccessMode |-> "hash",   SizeThreshold |-> 2, Search |-> <<1>>, Occurrences |-> 1] }

\* ------------------------------------------------------------------ state
VARIABLES
    store,                  \* redis: key -> value bytes, or NoValue
    initialKeys,            \* keys present when the run starts
    writer,                 \* other clients: "none", "any" or "periodic"
    writes,                 \* writes made so far by the "any" writer
    search,                 \* the searchCondition (needle)
    mode,                   \* "list", "purge", or "repurge" (WAIT_AND_REDELETE)
    pc,                     \* position of the tool
    err,                    \* error returned to reportError, "nil" if none
    scanCursor, keys, idx,  \* matchingKeysDo: cursor, page, index in page
    value,                  \* value fetched for keys[idx]
    matchingKeyCount, matchingValuesTotalSize,
    deletedKeyCount, deletedValuesTotalSize, failedDeleteCount,
    deletedKeys,
    minCleanDeletePasses, cleanDeletePass, deletePass,
    ki, foundKeys,          \* deleteKeys: index in keys argument, result
    phase,                  \* offset of the periodic writer's resurrections
    fetched,                \* key -> number of fetchValue calls on it
    scanDone,               \* a SCAN reply carried cursor 0
    lastCall,               \* the tool's most recent store call and outcome
    hit,                    \* an EXISTS of the running pass found its key
    passLog,                \* per finished pass: did an EXISTS find a key
    delLog,                 \* the DEL calls of the initial pass: key and outcome
    matched,                \* the keys whose value matched, in order
    checked,                \* the EXISTS replies of the running pass: key, found
    redeleted,              \* the keys the running pass has deleted again
    summaries,              \* number of summary lines printed
    exitCode,               \* exit status of the process, -1 while it runs
    matchResult             \* <<b>> once the matcher has returned b

vars == <<store, initialKeys, writer, writes, search, mode, pc, err,
          scanCursor, keys, idx, value,
          matchingKeyCount, matchingValuesTotalSize,
          deletedKeyCount, deletedValuesTotalSize, failedDeleteCount,
          deletedKeys, minCleanDeletePasses, cleanDeletePass, deletePass,
          ki, foundKeys, phase, fetched, scanDone, lastCall, hit, passLog, delLog, matched,
          checked, redeleted, summaries, exitCode, matchResult>>

scanVars == <<scanCursor, keys, idx, value>>
listVars == <<matchingKeyCount, matchingValuesTotalSize>>
purgeVars == <<deletedKeyCount, deletedValuesTotalSize, failedDeleteCount, deletedKeys>>
repeatVars == <<minCleanDeletePasses, cleanDeletePass, deletePass, ki, foundKeys, phase,
               passLog, checked, redeleted>>
envVars == <<initialKeys, writer, search, mode, matchResult>>
endVars == <<summaries, exitCode>>

\* A call of the tool on the store and its outcome; fault says that the
\* call itself failed (connection, server), which is the only way the other
\* calls fail.
Call(op, key, ok) == [op |-> op, key |-> key, ok |-> ok, fault |-> ~ok]

\* The variables of the tool when main starts
Start ==
    /\ err = "nil"
    /\ scanCursor = 0 /\ keys = <<>> /\ idx = 0
    /\ matchingKeyCount = 0 /\ matchingValuesTotalSize = 0
    /\ deletedKeyCount = 0 /\ deletedValuesTotalSize = 0 /\ failedDeleteCount = 0
    /\ deletedKeys = <<>>
    /\ minCleanDeletePasses = 0 /\ cleanDeletePass = 0 /\ deletePass = 0
    /\ ki = 0 /\ foundKeys = FALSE /\ phase = 0
    /\ scanDone = FALSE
    /\ lastCall = Call("none", 0, TRUE)
    /\ hit = FALSE
    /\ passLog = <<>>
    /\ delLog = <<>>
    /\ matched = <<>>
    /\ checked = <<>> /\ redeleted = <<>>
    /\ summaries = 0 /\ exitCode = 0 - 1

Init ==
    /\ store \in [Keys -> Values \cup {NoValue}]
    /\ initialKeys = {k \in Keys : store[k] # NoValue}
    /\ writer \in {"none", "any", "periodic"}
    /\ writes = 0
    /\ search \in Conditions
    /\ mode \in {"list", "purge", "repurge"}
    /\ pc = "count"
    /\ value = <<>>
    /\ matchResult = <<>>
    /\ fetched = [k \in Keys |-> 0]
    /\ Start

\* ------------------------------------------------------ the redis server
Min(a, b) == IF a < b THEN a ELSE b

Range(s) == {s[i] : i \in DOMAIN s}

\* The slots of the server's table: one for each key the store can hold
TableSize == Cardinality(DOMAIN store)

\* The slots a SCAN from cursor c covers when the server walks n of them.
SlotSeq(c, n) == [i \in 1..(Min(c + n, TableSize) - c) |-> c + i]

\* SCAN's reply: the keys that exist in the covered slots, and the next cursor
\* (0 when the walk has reached the end of the table).
ScanKeys(c, n) == SelectSeq(SlotSeq(c, n), LAMBDA k : store[k] # NoValue)
ScanNext(c, n) == IF c + n >= TableSize THEN 0 ELSE c + n

\* valueAccessMode.Get: the replies the server can give for key.  A failed
\* call is always possible; GET of a missing key is the error redis.Nil,
\* HGETALL of a missing key is the empty hash.  A hash value is stored as
\* the bytes hashAsBytes yields for it.
GetReplies(accessMode, key) ==
    {[ok |-> FALSE, body |-> <<>>]} \cup
    (IF store[key] # NoValue THEN {[ok |-> TRUE, body |-> store[key]]}
     ELSE IF accessMode = "hash" THEN {[ok |-> TRUE, body |-> <<>>]}
     ELSE {})

\* Mutant: DEL of a key that is not there is an error
DelErr_missing(exists, fault) == fault \/ ~exists

\* deleteKey: is Client.Del(key).Err() an error.  DEL replies the number of
\* keys it removed, 0 for a key that is not there, and that is no error.
DelErr(exists, fault) == fault

\* ------------------------------------------------------- matchingKeysDo
\* Mutant: the cursor is tested before the keys of the page are visited
LoopStep_breakFirst(i, page, cursor) ==
    IF cursor = 0 THEN "ret"
    ELSE IF i <= Len(page) THEN "fetch" ELSE "scan"

\* Where matchingKeysDo goes once the page index stands at i: the next key
\* of the page, else out of the scan loop when the cursor is 0, else SCAN.
LoopStep(i, page, cursor) ==
    IF i <= Len(page) THEN "fetch"
    ELSE IF cursor = 0 THEN "ret" ELSE "scan"

\* Mutant: deleteMatchingKeys looks at repeatDeletes only
AfterMatchingKeysDo_ignoreErr(e, m) ==
    IF m = "repurge" THEN "repeat" ELSE "done"

\* deleteMatchingKeys after matchingKeysDo returned e; listMatchingKeys
\* returns e as it is.
AfterMatchingKeysDo(e, m) ==
    IF m = "list" THEN "done"
    ELSE IF e # "nil" \/ m # "repurge" THEN "done" ELSE "repeat"

CountKeys ==
    /\ pc = "count"
    /\ \E ok \in BOOLEAN :
        /\ lastCall' = Call("dbsize", 0, ok)
        /\ err' = IF ok THEN "nil" ELSE "count"
        /\ pc' = IF ok THEN "scan" ELSE AfterMatchingKeysDo("count", mode)
    /\ UNCHANGED <<store, writes, envVars, endVars, scanVars, listVars, purgeVars,
                   repeatVars, fetched, scanDone, hit, delLog, matched>>

ScanError ==
    /\ pc = "scan"
    /\ lastCall' = Call("scan", 0, FALSE)
    /\ err' = "scan"
    /\ pc' = AfterMatchingKeysDo("scan", mode)
    /\ UNCHANGED <<store, writes, envVars, endVars, scanVars, listVars, purgeVars,
                   repeatVars, fetched, scanDone, hit, delLog, matched>>

ScanReply ==
    /\ pc = "scan"
    /\ \E n \in 1..MaxPage :
        /\ keys' = ScanKeys(scanCursor, n)
        /\ scanCursor' = ScanNext(scanCursor, n)
    /\ idx' = 1
    /\ scanDone' = (scanCursor' = 0)
    /\ lastCall' = Call("scan", 0, TRUE)
    /\ pc' = LoopStep(1, keys', scanCursor')
    /\ UNCHANGED <<store, writes, envVars, endVars, err, value, listVars, purgeVars,
                   repeatVars, fetched, hit, delLog, matched>>

\* Mutant: matchingKeysDo returns the fetch error
FetchError_fatal ==
    /\ pc = "fetch"
    /\ fetched' = [fetched EXCEPT ![keys[idx]] = @ + 1]
    /\ lastCall' = Call("get", keys[idx], FALSE)
    /\ err' = "fetch"
    /\ pc' = "done"
    /\ UNCHANGED <<store, writes, envVars, endVars, scanVars, listVars, purgeVars,
                   repeatVars, scanDone, hit, delLog, matched>>

FetchError ==
    /\ pc = "fetch"
    /\ [ok |-> FALSE, body |-> <<>>] \in GetReplies(search.AccessMode, keys[idx])
    /\ fetched' = [fetched EXCEPT ![keys[idx]] = @ + 1]
    /\ lastCall' = Call("get", keys[idx], FALSE)
    /\ idx' = idx + 1
    /\ pc' = LoopStep(idx + 1, keys, scanCursor)
    /\ UNCHANGED <<store, writes, envVars, endVars, err, scanCursor, keys, value,
                   listVars, purgeVars, repeatVars, scanDone, hit, delLog, matched>>

FetchValue ==
    /\ pc = "fetch"
    /\ \E r \in GetReplies(search.AccessMode, keys[idx]) :
        /\ r.ok
        /\ IF Matcher(search, r.body)
           THEN /\ value' = r.body
                /\ idx' = idx
                /\ matched' = Append(matched, keys[idx])
                /\ pc' = "act"
           ELSE /\ value' = value
                /\ idx' = idx + 1
                /\ matched' = matched
                /\ pc' = LoopStep(idx + 1, keys, scanCursor)
    /\ fetched' = [fetched EXCEPT ![keys[idx]] = @ + 1]
    /\ lastCall' = Call("get", keys[idx], TRUE)
    /\ UNCHANGED <<store, writes, envVars, endVars, err, scanCursor, keys,
                   listVars, purgeVars, repeatVars, scanDone, hit, delLog>>

\* ----------------------------------------------------- listMatchingKeys
\* Mutant: the list action deletes the key it reports
ListMatch_deletes ==
    /\ pc = "act" /\ mode = "list"
    /\ matchingKeyCount' = matchingKeyCount + 1
    /\ matchingValuesTotalSize' = matchingValuesTotalSize + Len(value)
    /\ store' = [store EXCEPT ![keys[idx]] = NoValue]
    /\ lastCall' = Call("del", keys[idx], TRUE)
    /\ idx' = idx + 1
    /\ pc' = LoopStep(idx + 1, keys, scanCursor)
    /\ UNCHANGED <<writes, envVars, endVars, err, scanCursor, keys, value,
                   purgeVars, repeatVars, fetched, scanDone, hit, delLog, matched>>

\* Mutant: the size of the value is not added to the total
ListMatch_noSize ==
    /\ pc = "act" /\ mode = "list"
    /\ matchingKeyCount' = matchingKeyCount + 1
    /\ idx' = idx + 1
    /\ pc' = LoopStep(idx + 1, keys, scanCursor)
    /\ UNCHANGED <<store, writes, envVars, endVars, err, scanCursor, keys, value,
                   matchingValuesTotalSize, purgeVars, repeatVars, fetched, scanDone,
                   lastCall, hit, delLog, matched>>

\* The action listMatchingKeys passes to matchingKeysDo: count and print
ListMatch ==
    /\ pc = "act" /\ mode = "list"
    /\ matchingKeyCount' = matchingKeyCount + 1
    /\ matchingValuesTotalSize' = matchingValuesTotalSize + Len(value)
    /\ idx' = idx + 1
    /\ pc' = LoopStep(idx + 1, keys, scanCursor)
    /\ UNCHANGED <<store, writes, envVars, endVars, err, scanCursor, keys, value,
                   purgeVars, repeatVars, fetched, scanDone, lastCall, hit, delLog, matched>>

\* --------------------------------------------------- deleteMatchingKeys
\* Mutant: the deleted key is put in front of deletedKeys
DeleteOk_prepend ==
    /\ pc = "act" /\ mode # "list"
    /\ deletedKeys' = <<keys[idx]>> \o deletedKeys
    /\ store' = [store EXCEPT ![keys[idx]] = NoValue]
    /\ lastCall' = Call("del", keys[idx], TRUE)
    /\ delLog' = Append(delLog, [key |-> keys[idx], ok |-> TRUE])
    /\ deletedKeyCount' = deletedKeyCount + 1
    /\ deletedValuesTotalSize' = deletedValuesTotalSize + Len(value)
    /\ idx' = idx + 1
    /\ pc' = LoopStep(idx + 1, keys, scanCursor)
    /\ UNCHANGED <<writes, envVars, endVars, err, scanCursor, keys, value, listVars,
                   failedDeleteCount, repeatVars, fetched, scanDone, hit, matched>>

\* The action deleteMatchingKeys passes to matchingKeysDo, DEL answered
DeleteOk ==
    /\ pc = "act" /\ mode # "list"
    /\ deletedKeys' = Append(deletedKeys, keys[idx])
    /\ \E fault \in BOOLEAN :
        /\ ~DelErr(store[keys[idx]] # NoValue, fault)
        /\ lastCall' = [Call("del", keys[idx], TRUE) EXCEPT !.fault = fault]
    /\ store' = [store EXCEPT ![keys[idx]] = NoValue]
    /\ delLog' = Append(delLog, [key |-> keys[idx], ok |-> TRUE])
    /\ deletedKeyCount' = deletedKeyCount + 1
    /\ deletedValuesTotalSize' = deletedValuesTotalSize + Len(value)
    /\ idx' = idx + 1
    /\ pc' = LoopStep(idx + 1, keys, scanCursor)
    /\ UNCHANGED <<writes, envVars, endVars, err, scanCursor, keys, value, listVars,
                   failedDeleteCount, repeatVars, fetched, scanDone, hit, matched>>

\* Mutant: a key whose DEL failed is not appended to deletedKeys
DeleteError_skip ==
    /\ pc = "act" /\ mode # "list"
    /\ lastCall' = Call("del", keys[idx], FALSE)
    /\ delLog' = Append(delLog, [key |-> keys[idx], ok |-> FALSE])
    /\ failedDeleteCount' = failedDeleteCount + 1
    /\ idx' = idx + 1
    /\ pc' = LoopStep(idx + 1, keys, scanCursor)
    /\ UNCHANGED <<store, writes, envVars, endVars, err, scanCursor, keys, value, listVars,
                   deletedKeyCount, deletedValuesTotalSize, deletedKeys, repeatVars,
                   fetched, scanDone, hit, matched>>

\* Mutant: the action returns the DEL error, which ends matchingKeysDo
DeleteError_abort ==
    /\ pc = "act" /\ mode # "list"
    /\ deletedKeys' = Append(deletedKeys, keys[idx])
    /\ lastCall' = Call("del", keys[idx], FALSE)
    /\ delLog' = Append(delLog, [key |-> keys[idx], ok |-> FALSE])
    /\ failedDeleteCount' = failedDeleteCount + 1
    /\ err' = "delete"
    /\ pc' = "done"
    /\ UNCHANGED <<store, writes, envVars, endVars, scanVars, listVars,
                   deletedKeyCount, deletedValuesTotalSize,
                   repeatVars, fetched, scanDone, hit, matched>>

DeleteError ==
    /\ pc = "act" /\ mode # "list"
    /\ deletedKeys' = Append(deletedKeys, keys[idx])
    /\ \E fault \in BOOLEAN :
        /\ DelErr(store[keys[idx]] # NoValue, fault)
        /\ lastCall' = [Call("del", keys[idx], FALSE) EXCEPT !.fault = fault]
    /\ delLog' = Append(delLog, [key |-> keys[idx], ok |-> FALSE])
    /\ failedDeleteCount' = failedDeleteCount + 1
    /\ idx' = idx + 1
    /\ pc' = LoopStep(idx + 1, keys, scanCursor)
    /\ UNCHANGED <<store, writes, envVars, endVars, err, scanCursor, keys, value, listVars,
                   deletedKeyCount, deletedValuesTotalSize, repeatVars,
                   fetched, scanDone, hit, matched>>

\* matchingKeysDo returned nil; its locals are gone
Return ==
    /\ pc = "ret"
    /\ pc' = AfterMatchingKeysDo("nil", mode)
    /\ scanCursor' = 0 /\ keys' = <<>> /\ idx' = 0 /\ value' = <<>>
    /\ UNCHANGED <<store, writes, envVars, endVars, err, listVars, purgeVars,
                   repeatVars, fetched, scanDone, lastCall, hit, delLog, matched>>

\* ----------------------------------------------------- repeatDeleteKeys
\* Mutants of the loop condition: one pass too many, one pass too few
LoopCond_le(clean, minClean) == clean <= minClean
LoopCond_early(clean, minClean) == clean < minClean - 1

\* Mutant: the condition is tested after the pass, so one pass always runs
LoopCond_doWhile(clean, minClean) == clean < minClean \/ (clean = 0 /\ minClean <= 0)

\* The loop condition of repeatDeleteKeys
LoopCond(clean, minClean) == clean < minClean

\* Mutant: a dirty pass leaves the counter as it is instead of resetting it
NextCleanPass_noreset(found, clean) == IF found THEN clean ELSE clean + 1

\* Mutant: every pass counts as clean
NextCleanPass_always(found, clean) == clean + 1

\* The clean-pass counter after a pass that returned found
NextCleanPass(found, clean) == IF found THEN 0 ELSE clean + 1

\* The periodic writer re-inserts a deleted key while the tool sleeps, once
\* every minClean - 1 passes; done is the number of passes finished.
Due(done, minClean, ph) ==
    /\ writer = "periodic"
    /\ minClean >= 2
    /\ deletedKeys # <<>>
    /\ done % (minClean - 1) = ph

Phases(minClean) ==
    IF writer = "periodic" /\ minClean >= 2 THEN 0..(minClean - 2) ELSE {0}

\* repeatDeleteKeys is entered: envInt("CLEAN_DELETE_MIN", 500)
RepeatDeleteKeys ==
    /\ pc = "repeat"
    /\ \E m \in MinCleanValues :
        /\ minCleanDeletePasses' = m
        /\ \E ph \in Phases(m) : phase' = ph
    /\ cleanDeletePass' = 0
    /\ deletePass' = 0
    /\ pc' = "loop"
    /\ UNCHANGED <<store, writes, envVars, endVars, err, scanVars, listVars, purgeVars,
                   ki, foundKeys, hit, passLog, checked, redeleted,
                   fetched, scanDone, lastCall, delLog, matched>>

\* Mutant: deleteKeys leaves out the first key of its argument
PassStart_skipFirst ==
    /\ pc = "loop"
    /\ LoopCond(cleanDeletePass, minCleanDeletePasses)
    /\ deletePass < MaxPass
    /\ IF Due(deletePass, minCleanDeletePasses, phase)
       THEN \E k \in Range(deletedKeys) : store' = [store EXCEPT ![k] = <<1>>]
       ELSE store' = store
    /\ deletePass' = deletePass + 1
    /\ ki' = 2
    /\ foundKeys' = FALSE
    /\ pc' = "exists"
    /\ UNCHANGED <<writes, envVars, endVars, err, scanVars, listVars, purgeVars,
                   minCleanDeletePasses, cleanDeletePass, phase, hit, passLog,
                   checked, redeleted, fetched, scanDone, lastCall, delLog, matched>>

\* One more pass: the sleep, deletePass++, and the call of deleteKeys
PassStart ==
    /\ pc = "loop"
    /\ LoopCond(cleanDeletePass, minCleanDeletePasses)
    /\ deletePass < MaxPass
    /\ IF Due(deletePass, minCleanDeletePasses, phase)
       THEN \E k \in Range(deletedKeys) : store' = [store EXCEPT ![k] = <<1>>]
       ELSE store' = store
    /\ deletePass' = deletePass + 1
    /\ ki' = 1
    /\ foundKeys' = FALSE
    /\ pc' = "exists"
    /\ UNCHANGED <<writes, envVars, endVars, err, scanVars, listVars, purgeVars,
                   minCleanDeletePasses, cleanDeletePass, phase, hit, passLog,
                   checked, redeleted, fetched, scanDone, lastCall, delLog, matched>>

\* The loop condition fails: repeatDeleteKeys returns nil
LoopExit ==
    /\ pc = "loop"
    /\ ~LoopCond(cleanDeletePass, minCleanDeletePasses)
    /\ pc' = "done"
    /\ UNCHANGED <<store, writes, envVars, endVars, err, scanVars, listVars, purgeVars,
                   repeatVars, hit, fetched, scanDone, lastCall, delLog, matched>>

\* ----------------------------------------------------------- deleteKeys
\* Mutant: a failed EXISTS is taken as "the key does not exist"
ExistsError_skip ==
    /\ pc = "exists" /\ ki <= Len(deletedKeys)
    /\ lastCall' = Call("exists", deletedKeys[ki], FALSE)
    /\ ki' = ki + 1
    /\ UNCHANGED <<store, writes, envVars, endVars, pc, err, scanVars, listVars, purgeVars,
                   minCleanDeletePasses, cleanDeletePass, deletePass, foundKeys,
                   phase, passLog, checked, redeleted, hit, fetched, scanDone,
                   delLog, matched>>

ExistsError ==
    /\ pc = "exists" /\ ki <= Len(deletedKeys)
    /\ lastCall' = Call("exists", deletedKeys[ki], FALSE)
    /\ err' = "exists"
    /\ pc' = "done"
    /\ UNCHANGED <<store, writes, envVars, endVars, scanVars, listVars, purgeVars,
                   repeatVars, hit, fetched, scanDone, delLog, matched>>

\* Mutant: a key found existing is deleted again only if its value matches
ExistsReply_rematch ==
    /\ pc = "exists" /\ ki <= Len(deletedKeys)
    /\ lastCall' = Call("exists", deletedKeys[ki], TRUE)
    /\ IF store[deletedKeys[ki]] # NoValue /\ Matcher(search, store[deletedKeys[ki]])
       THEN /\ foundKeys' = TRUE
            /\ ki' = ki
            /\ pc' = "redel"
       ELSE /\ foundKeys' = foundKeys
            /\ ki' = ki + 1
            /\ pc' = "exists"
    /\ hit' = (hit \/ store[deletedKeys[ki]] # NoValue)
    /\ checked' = Append(checked, [key |-> deletedKeys[ki],
                                   found |-> store[deletedKeys[ki]] # NoValue])
    /\ UNCHANGED <<store, writes, envVars, endVars, err, scanVars, listVars, purgeVars,
                   minCleanDeletePasses, cleanDeletePass, deletePass, phase,
                   passLog, redeleted, fetched, scanDone, delLog, matched>>

ExistsReply ==
    /\ pc = "exists" /\ ki <= Len(deletedKeys)
    /\ lastCall' = Call("exists", deletedKeys[ki], TRUE)
    /\ IF store[deletedKeys[ki]] # NoValue
       THEN /\ foundKeys' = TRUE
            /\ ki' = ki
            /\ pc' = "redel"
       ELSE /\ foundKeys' = foundKeys
            /\ ki' = ki + 1
            /\ pc' = "exists"
    /\ hit' = (hit \/ store[deletedKeys[ki]] # NoValue)
    /\ checked' = Append(checked, [key |-> deletedKeys[ki],
                                   found |-> store[deletedKeys[ki]] # NoValue])
    /\ UNCHANGED <<store, writes, envVars, endVars, err, scanVars, listVars, purgeVars,
                   minCleanDeletePasses, cleanDeletePass, deletePass, phase,
                   passLog, redeleted, fetched, scanDone, delLog, matched>>

\* Mutant: a failed re-delete is passed over, as in the initial pass
RedeleteError_continue ==
    /\ pc = "redel"
    /\ lastCall' = Call("redel", deletedKeys[ki], FALSE)
    /\ ki' = ki + 1
    /\ pc' = "exists"
    /\ UNCHANGED <<store, writes, envVars, endVars, err, scanVars, listVars, purgeVars,
                   minCleanDeletePasses, cleanDeletePass, deletePass, foundKeys,
                   phase, passLog, checked, redeleted, hit, fetched, scanDone,
                   delLog, matched>>

RedeleteError ==
    /\ pc = "redel"
    /\ \E fault \in BOOLEAN :
        /\ DelErr(store[deletedKeys[ki]] # NoValue, fault)
        /\ lastCall' = [Call("redel", deletedKeys[ki], FALSE) EXCEPT !.fault = fault]
    /\ err' = "delete"
    /\ pc' = "done"
    /\ UNCHANGED <<store, writes, envVars, endVars, scanVars, listVars, purgeVars,
                   repeatVars, hit, fetched, scanDone, delLog, matched>>

\* Mutant: deleteKeys returns after the first key it has deleted again
RedeleteOk_stop ==
    /\ pc = "redel"
    /\ lastCall' = Call("redel", deletedKeys[ki], TRUE)
    /\ store' = [store EXCEPT ![deletedKeys[ki]] = NoValue]
    /\ redeleted' = Append(redeleted, deletedKeys[ki])
    /\ ki' = Len(deletedKeys) + 1
    /\ pc' = "exists"
    /\ UNCHANGED <<writes, envVars, endVars, err, scanVars, listVars, purgeVars,
                   minCleanDeletePasses, cleanDeletePass, deletePass, foundKeys,
                   phase, passLog, checked, hit, fetched, scanDone, delLog, matched>>

\* Mutant: a key deleted again is counted as one more deleted key
RedeleteOk_counts ==
    /\ pc = "redel"
    /\ lastCall' = Call("redel", deletedKeys[ki], TRUE)
    /\ store' = [store EXCEPT ![deletedKeys[ki]] = NoValue]
    /\ redeleted' = Append(redeleted, deletedKeys[ki])
    /\ deletedKeyCount' = deletedKeyCount + 1
    /\ ki' = ki + 1
    /\ pc' = "exists"
    /\ UNCHANGED <<writes, envVars, endVars, err, scanVars, listVars,
                   deletedValuesTotalSize, failedDeleteCount, deletedKeys,
                   minCleanDeletePasses, cleanDeletePass, deletePass, foundKeys,
                   phase, passLog, checked, hit, fetched, scanDone, delLog, matched>>

\* deleteKeys: the DEL of a key found existing is answered
RedeleteOk ==
    /\ pc = "redel"
    /\ \E fault \in BOOLEAN :
        /\ ~DelErr(store[deletedKeys[ki]] # NoValue, fault)
        /\ lastCall' = [Call("redel", deletedKeys[ki], TRUE) EXCEPT !.fault = fault]
    /\ store' = [store EXCEPT ![deletedKeys[ki]] = NoValue]
    /\ redeleted' = Append(redeleted, deletedKeys[ki])
    /\ ki' = ki + 1
    /\ pc' = "exists"
    /\ UNCHANGED <<writes, envVars, endVars, err, scanVars, listVars, purgeVars,
                   minCleanDeletePasses, cleanDeletePass, deletePass, foundKeys,
                   phase, passLog, checked, hit, fetched, scanDone, delLog, matched>>

\* deleteKeys returned (foundKeys, nil): the counter is updated
EndPass ==
    /\ pc = "exists" /\ ki > Len(deletedKeys)
    /\ cleanDeletePass' = NextCleanPass(foundKeys, cleanDeletePass)
    /\ passLog' = Append(passLog, hit)
    /\ hit' = FALSE
    /\ checked' = <<>> /\ redeleted' = <<>>
    /\ pc' = "loop"
    /\ UNCHANGED <<store, writes, envVars, endVars, err, scanVars, listVars, purgeVars,
                   minCleanDeletePasses, deletePass, ki, foundKeys, phase,
                   fetched, scanDone, lastCall, delLog, matched>>

\* -------------------------------------------------- other redis clients
\* The tool sees the store only through its calls, so a write is placed
\* between two of them: at the positions whose next step is a store call.
Observing == pc \in {"scan", "fetch", "act", "exists", "redel"}

\* Another client inserts (or re-inserts) a key
WriterSet ==
    /\ writer = "any" /\ writes < MaxWrites
    /\ Observing
    /\ \E k \in Keys, v \in Values :
        /\ store[k] = NoValue
        /\ store' = [store EXCEPT ![k] = v]
    /\ writes' = writes + 1
    /\ UNCHANGED <<envVars, endVars, pc, err, scanVars, listVars, purgeVars, repeatVars,
                   hit, fetched, scanDone, lastCall, delLog, matched>>

\* Another client removes a key
WriterDel ==
    /\ writer = "any" /\ writes < MaxWrites
    /\ Observing
    /\ \E k \in Keys :
        /\ store[k] # NoValue
        /\ store' = [store EXCEPT ![k] = NoValue]
    /\ writes' = writes + 1
    /\ UNCHANGED <<envVars, endVars, pc, err, scanVars, listVars, purgeVars, repeatVars,
                   hit, fetched, scanDone, lastCall, delLog, matched>>

\* ------------------------------------------------------------------- main
\* Mutant: every run exits with status 0
ExitStatus_zero(e) == 0

\* reportError: return when the error is nil, so that main returns and the
\* status is 0; os.Exit(1) otherwise.
ExitStatus(e) == IF e = "nil" THEN 0 ELSE 1

\* Mutant: on an error the process exits before the deferred summary runs
Finish_exitFirst ==
    /\ pc = "done" /\ exitCode = 0 - 1
    /\ summaries' = IF err = "nil" THEN summaries + 1 ELSE summaries
    /\ exitCode' = ExitStatus(err)
    /\ UNCHANGED <<store, writes, envVars, pc, err, scanVars, listVars, purgeVars,
                   repeatVars, fetched, scanDone, lastCall, hit, delLog, matched>>

\* deleteMatchingKeys or listMatchingKeys returns err: its deferred function
\* prints the summary, then reportError gets err and main ends.
Finish ==
    /\ pc = "done" /\ exitCode = 0 - 1
    /\ summaries' = summaries + 1
    /\ exitCode' = ExitStatus(err)
    /\ UNCHANGED <<store, writes, envVars, pc, err, scanVars, listVars, purgeVars,
                   repeatVars, fetched, scanDone, lastCall, hit, delLog, matched>>

Next ==
    \/ CountKeys \/ ScanError \/ ScanReply \/ FetchError \/ FetchValue
    \/ ListMatch \/ DeleteOk \/ DeleteError \/ Return
    \/ RepeatDeleteKeys \/ PassStart \/ LoopExit
    \/ ExistsError \/ ExistsReply \/ RedeleteError \/ RedeleteOk \/ EndPass
    \/ WriterSet \/ WriterDel
    \/ Finish

Spec == Init /\ [][Next]_vars

\* ------------------------------------------------------ the matcher alone
\* The closure of Matcher applied once to a value, for every searchCondition
\* and value over the bytes 1..2 up to MaxLen long, and for the values of
\* the README's examples: "null" and "nullish" (n, u, l, i, s, h as the
\* bytes 1..6) and "ababab" against "ab".
Null == <<1, 2, 3, 3>>
Nullish == <<1, 2, 3, 3, 4, 5, 6>>

BytesUpTo(n) == UNION {[1..m -> {1, 2}] : m \in 0..n}

MatchValues == BytesUpTo(MaxLen) \cup {Null, Nullish, <<1, 2, 1, 2, 1, 2>>}

\* SIZE_THRESHOLD and REQUIRED_MATCH_COUNT are any integers envInt parses
MatchConditions ==
    [AccessMode : {"string"},
     SizeThreshold : (0 - 1)..(MaxLen + 1),
     Search : BytesUpTo(MaxLen) \cup {Null},
     Occurrences : (0 - 1)..(MaxLen + 1)]

MatchInit ==
    /\ store = [k \in Keys |-> NoValue]
    /\ initialKeys = {}
    /\ writer = "none"
    /\ writes = 0
    /\ search \in MatchConditions
    /\ mode = "list"
    /\ pc = "match"
    /\ value \in MatchValues
    /\ matchResult = <<>>
    /\ fetched = [k \in Keys |-> 0]
    /\ Start

\* valueMatches(value)
ApplyMatcher ==
    /\ pc = "match"
    /\ matchResult' = <<Matcher(search, value)>>
    /\ pc' = "matched"
    /\ UNCHANGED <<store, writes, initialKeys, writer, search, mode, endVars, err,
                   scanVars, listVars, purgeVars, repeatVars, fetched, scanDone,
                   lastCall, hit, delLog, matched>>

MatchNext == ApplyMatcher

MatchSpec == MatchInit /\ [][MatchNext]_vars

\* ------------------------------------------------- the README's list run
\* A list run over three keys a, b, c (the slots 1, 2, 3), each holding
\* "null" or "nullish" or missing, with the pattern "null" as an exact match
\* or with one occurrence required; no other client writes, and every fetch
\* is answered (DBSIZE and SCAN may fail).
E2EStore == <<Null, Nullish, Null>>

E2EConditions ==
    [AccessMode : {"string"}, SizeThreshold : {0}, Search : {Null},
     Occurrences : {0, 1}]

E2EInit ==
    /\ store \in [DOMAIN E2EStore -> {Null, Nullish, NoValue}]
    /\ initialKeys = {k \in DOMAIN store : store[k] # NoValue}
    /\ writer = "none"
    /\ writes = 0
    /\ search \in E2EConditions
    /\ mode = "list"
    /\ pc = "count"
    /\ value = <<>>
    /\ matchResult = <<>>
    /\ fetched = [k \in DOMAIN E2EStore |-> 0]
    /\ Start

E2ENext ==
    \/ CountKeys \/ ScanError \/ ScanReply \/ FetchValue
    \/ ListMatch \/ Return \/ Finish

E2ESpec == E2EInit /\ [][E2ENext]_vars

\* =================================================================== claims
\* repeatDeleteKeys has been entered and has returned nil
ReturnedNil == mode = "repurge" /\ pc = "done" /\ err = "nil"

\* Every DEL of the initial pass succeeded: the keys of deletedKeys are gone
AllDeleted == \A i \in DOMAIN delLog : delLog[i].ok

C2_CleanRun ==
    ReturnedNil =>
        /\ Len(passLog) = deletePass
        /\ deletePass >= minCleanDeletePasses
        /\ \A i \in DOMAIN passLog :
              i > deletePass - minCleanDeletePasses => ~passLog[i]

C2_Witness ==
    /\ ReturnedNil
    /\ minCleanDeletePasses = 2
    /\ passLog = <<FALSE, TRUE, FALSE, FALSE>>

\* C3: reconciliation non-convergence.  While a writer re-inserts a key of
\* K once every minCleanDeletePasses - 1 passes, every pass that follows a
\* re-insertion leaves the clean-pass counter at 0, the counter stays below
\* minCleanDeletePasses, repeatDeleteKeys never returns nil, and a new pass
\* can always be started (up to the cap MaxPass of the model).
C3_NonConvergence ==
    (writer = "periodic" /\ deletedKeys # <<>> /\ minCleanDeletePasses >= 2) =>
        /\ cleanDeletePass < minCleanDeletePasses
        /\ \A i \in DOMAIN passLog :
              (i - 1) % (minCleanDeletePasses - 1) = phase => passLog[i]
        /\ (pc = "loop" /\ passLog # <<>> /\ passLog[Len(passLog)]) => cleanDeletePass = 0
        /\ ~ReturnedNil
        /\ (pc = "loop" /\ deletePass < MaxPass) => ENABLED PassStart

C3_Witness ==
    /\ writer = "periodic" /\ deletedKeys # <<>>
    /\ minCleanDeletePasses = 3
    /\ pc = "loop" /\ deletePass = MaxPass
    /\ cleanDeletePass = 0
    /\ \E i \in DOMAIN passLog : ~passLog[i]

\* matchingKeysDo has returned nil
ScanFinished ==
    \/ pc \in {"ret", "repeat", "loop", "exists", "redel"}
    \/ pc = "done" /\ err \notin {"count", "scan"}

\* repeatDeleteKeys has been entered
Repeating == pc \in {"repeat", "loop", "exists", "redel"} \/ deletePass > 0

\* C4 as stated: a key is in deletedKeys if and only if one of the initial
\* DEL calls was on it and succeeded.
C4_OnlySuccessfulDeletes ==
    \A k \in Keys :
        k \in Range(deletedKeys) <=>
            \E i \in DOMAIN delLog : delLog[i].key = k /\ delLog[i].ok

\* C4, amended: deletedKeys is the sequence of the keys on which the initial
\* pass called DEL, in the order of the calls and whatever their outcome;
\* these are the keys that matched, in the order they matched.
C4_AttemptedDeletes ==
    mode # "list" =>
        /\ Len(deletedKeys) = Len(delLog)
        /\ \A i \in DOMAIN delLog : deletedKeys[i] = delLog[i].key
        /\ matched = IF pc = "act" THEN Append(deletedKeys, keys[idx]) ELSE deletedKeys

C4_Witness ==
    /\ mode = "repurge" /\ pc = "loop"
    /\ Len(delLog) = 2
    /\ ~delLog[1].ok /\ delLog[2].ok
    /\ deletedKeys = <<1, 2>>

\* C5: enumeration completeness.  No key is fetched twice and no SCAN is
\* issued after a reply carried cursor 0; when nothing else writes to the
\* store and matchingKeysDo has returned nil, every key of the keyspace was
\* fetched exactly once and no other key was, whatever sizes the pages had.
C5_Enumeration ==
    /\ \A k \in Keys : fetched[k] <= 1
    /\ scanDone => pc # "scan"
    /\ ScanFinished => scanDone
    /\ (writer = "none" /\ ScanFinished) =>
          \A k \in Keys : fetched[k] = IF k \in initialKeys THEN 1 ELSE 0

C5_Witness ==
    /\ writer = "none" /\ pc = "ret"
    /\ initialKeys = Keys
    /\ Len(keys) = 1
    /\ \A k \in Keys : fetched[k] = 1

\* C6: right after an EXISTS call failed, the tool has stopped with that
\* error: the pass is unfinished, its index still stands at the failing key,
\* no pass is started and no further call is made.
C6_ExistsErrorFatal ==
    (lastCall.op = "exists" /\ ~lastCall.ok) =>
        /\ pc = "done" /\ err = "exists"
        /\ ki <= Len(deletedKeys) /\ deletedKeys[ki] = lastCall.key
        /\ Len(passLog) = deletePass - 1

C6_Witness ==
    /\ lastCall.op = "exists" /\ ~lastCall.ok
    /\ pc = "done"
    /\ ki = 1 /\ Len(deletedKeys) = 2
    /\ deletePass = 2

\* C7: right after the DEL of a key found existing in a reconciliation pass
\* failed, the tool has stopped with that error and the pass is unfinished;
\* a failed DEL of the initial pass leaves the error nil.
C7_RedeleteErrorFatal ==
    /\ (lastCall.op = "redel" /\ ~lastCall.ok) =>
          /\ pc = "done" /\ err = "delete" /\ ~ReturnedNil
          /\ deletedKeys[ki] = lastCall.key
          /\ Len(passLog) = deletePass - 1
    /\ (lastCall.op = "del" /\ ~lastCall.ok) => err = "nil"

C7_Witness ==
    /\ lastCall.op = "redel" /\ ~lastCall.ok
    /\ pc = "done" /\ err = "delete"
    /\ failedDeleteCount = 0

\* C8: a step of the initial pass in which DEL fails adds one to
\* failedDeleteCount, leaves deletedKeyCount, deletedValuesTotalSize, the
\* store and the error alone, and goes on to the next key (or the next SCAN,
\* or the end of the scan); with no other writer the scan still fetches
\* every key of the keyspace.
C8_DeleteErrorContinues ==
    /\ [][(delLog' # delLog /\ ~lastCall'.ok) =>
            /\ failedDeleteCount' = failedDeleteCount + 1
            /\ deletedKeyCount' = deletedKeyCount
            /\ deletedValuesTotalSize' = deletedValuesTotalSize
            /\ store' = store /\ err' = "nil"
            /\ keys' = keys /\ scanCursor' = scanCursor /\ idx' = idx + 1
            /\ pc' = IF idx < Len(keys) THEN "fetch"
                     ELSE IF scanCursor = 0 THEN "ret" ELSE "scan"]_vars
    /\ [](failedDeleteCount = Cardinality({i \in DOMAIN delLog : ~delLog[i].ok}))
    /\ []((writer = "none" /\ failedDeleteCount > 0 /\ ScanFinished) =>
            \A k \in initialKeys : fetched[k] = 1)

C8_Witness ==
    /\ pc = "ret" /\ writer = "none"
    /\ Len(delLog) = 2 /\ ~delLog[1].ok /\ delLog[2].ok
    /\ failedDeleteCount = 1 /\ deletedKeyCount = 1

\* C9: a step in which the fetch of a key fails changes no counter, not
\* deletedKeys, not the matched keys, not the store and not the error, and
\* goes on to the next key of the same page (or the next SCAN, or the end
\* of the scan).
C9_FetchErrorSkips ==
    [][(fetched' # fetched /\ ~lastCall'.ok) =>
          /\ UNCHANGED <<listVars, purgeVars, matched, delLog, store, err>>
          /\ keys' = keys /\ scanCursor' = scanCursor /\ idx' = idx + 1
          /\ pc' = IF idx < Len(keys) THEN "fetch"
                   ELSE IF scanCursor = 0 THEN "ret" ELSE "scan"]_vars

C9_Witness ==
    /\ lastCall.op = "get" /\ ~lastCall.ok
    /\ pc = "fetch" /\ idx = 2
    /\ matched = <<>> /\ err = "nil"

\* C10: right after a SCAN call failed, the tool has stopped with that
\* error and repeatDeleteKeys has not been entered, also when keys of
\* earlier pages were deleted; repeatDeleteKeys is entered only after
\* matchingKeysDo returned nil, the scan complete.
C10_ScanErrorFatal ==
    /\ (lastCall.op = "scan" /\ ~lastCall.ok) =>
          pc = "done" /\ err = "scan" /\ ~Repeating
    /\ Repeating => (scanDone /\ err \notin {"scan", "count"})

C10_Witness ==
    /\ lastCall.op = "scan" /\ ~lastCall.ok
    /\ mode = "repurge" /\ pc = "done"
    /\ deletedKeyCount = 1

\* C11: list mode never writes to the store.  In list mode every step of
\* the tool (every step that is not another client's write) leaves the store
\* as it is, whether its call succeeded or failed; the only calls list mode
\* makes are DBSIZE, SCAN and the fetch; and with no other client writing,
\* the store holds the keys it held at the start, all along the run.
C11_ListReadOnly ==
    /\ [][(mode = "list" /\ writes' = writes) => store' = store]_vars
    /\ [](mode = "list" => lastCall.op \in {"none", "dbsize", "scan", "get"})
    /\ []((mode = "list" /\ writes = 0) =>
            initialKeys = {k \in DOMAIN store : store[k] # NoValue})

C11_Witness ==
    /\ mode = "list" /\ pc = "done" /\ err = "scan"
    /\ writes = 0
    /\ matchingKeyCount = 1
    /\ store[matched[1]] # NoValue
    /\ initialKeys = Keys

\* C12: deleting a key that is no longer there.  When the key is missing
\* at the moment DEL is called on it and the call itself does not fail, the
\* DEL is a success: in the initial pass failedDeleteCount stays as it is,
\* deletedKeyCount grows by one, the error stays nil and the scan goes on
\* to the next key; in a reconciliation pass the pass goes on.
C12_DeleteMissingKey ==
    /\ [][(delLog' # delLog /\ store[keys[idx]] = NoValue /\ ~lastCall'.fault) =>
            /\ lastCall'.ok
            /\ failedDeleteCount' = failedDeleteCount
            /\ deletedKeyCount' = deletedKeyCount + 1
            /\ err' = "nil"
            /\ pc' = LoopStep(idx + 1, keys, scanCursor)]_vars
    /\ [][(pc = "redel" /\ pc' # "redel" /\ store[deletedKeys[ki]] = NoValue
              /\ ~lastCall'.fault) =>
            /\ lastCall'.ok
            /\ err' = "nil" /\ pc' = "exists" /\ ki' = ki + 1]_vars

\* The only key of the store matched and another client removed it between
\* the fetch and the DEL.
C12_Witness ==
    /\ mode = "purge" /\ pc = "done" /\ err = "nil"
    /\ initialKeys = {1}
    /\ writer = "any" /\ writes = 1
    /\ store = [k \in Keys |-> NoValue]
    /\ deletedKeys = <<1>>
    /\ lastCall.op = "del" /\ lastCall.ok
    /\ deletedKeyCount = 1 /\ failedDeleteCount = 0

\* The matcher has returned on value
Matched == matchResult # <<>>

\* C13: size floor.  Whatever the pattern and the occurrence setting, the
\* matcher returns false on a value shorter than SizeThreshold.
C13_SizeFloor ==
    (Matched /\ Len(value) < search.SizeThreshold) => matchResult = <<FALSE>>

\* A value equal to the pattern, in exact-match mode, rejected for its size
C13_Witness ==
    /\ matchResult = <<FALSE>>
    /\ Len(value) < search.SizeThreshold
    /\ search.Occurrences = 0 /\ value = search.Search /\ value # <<>>

\* C14 as stated: with a non-empty pattern and Occurrences = 0 the matcher
\* returns true if and only if the value equals the pattern.
C14_ExactMatch ==
    (Matched /\ search.Search # <<>> /\ search.Occurrences = 0) =>
        (matchResult = <<TRUE>> <=> value = search.Search)

\* C14, amended: with a non-empty pattern and Occurrences = 0, on a value
\* at least SizeThreshold long the matcher returns true if and only if the
\* value equals the pattern byte for byte; on a shorter value it returns
\* false also when the value equals the pattern.
C14_ExactMatchAboveFloor ==
    (Matched /\ search.Search # <<>> /\ search.Occurrences = 0) =>
        (matchResult = <<TRUE>> <=>
            (Len(value) >= search.SizeThreshold /\ value = search.Search))

\* "nullish" against "null": a value that contains the pattern is rejected
C14_Witness ==
    /\ matchResult = <<FALSE>>
    /\ search.Occurrences = 0 /\ search.SizeThreshold = 0
    /\ search.Search = Null /\ value = Nullish

\* The largest number of occurrences of p in v no two of which overlap
NonOverlapping(v, p) ==
    LET at == {i \in 1..(Len(v) + 1) : i + Len(p) - 1 <= Len(v)
                                        /\ SubSeq(v, i, i + Len(p) - 1) = p}
        apart == {S \in SUBSET at :
                    \A i, j \in S : i < j => j - i >= Len(p)}
    IN  CHOOSE n \in 0..(Len(v) + 1) :
            /\ \E S \in apart : Cardinality(S) = n
            /\ \A S \in apart : Cardinality(S) <= n

\* C15 as stated: with Occurrences = n > 0 the matcher returns true if and
\* only if the pattern has at least n non-overlapping occurrences in the
\* value, for every pattern.
C15_OccurrenceMatch ==
    (Matched /\ search.Occurrences > 0) =>
        (matchResult = <<TRUE>> <=>
            NonOverlapping(value, search.Search) >= search.Occurrences)

\* C15, amended: with a non-empty pattern and Occurrences = n > 0, on a
\* value at least SizeThreshold long the matcher returns true if and only
\* if the pattern has at least n non-overlapping occurrences in the value;
\* on a shorter value it returns false, and with the empty pattern it
\* returns true on every value that long, whatever n is.
C15_OccurrenceMatchAboveFloor ==
    (Matched /\ search.Occurrences > 0) =>
        (matchResult = <<TRUE>> <=>
            /\ Len(value) >= search.SizeThreshold
            /\ \/ search.Search = <<>>
               \/ NonOverlapping(value, search.Search) >= search.Occurrences)

\* "ab" twice in "ababab"
C15_Witness ==
    /\ matchResult = <<TRUE>>
    /\ search.Occurrences = 2 /\ search.SizeThreshold = 0
    /\ search.Search = <<1, 2>> /\ value = <<1, 2, 1, 2, 1, 2>>

\* Sum of the lengths of the values the store holds for the keys of ks
RECURSIVE SumLen(_)
SumLen(ks) == IF ks = <<>> THEN 0 ELSE Len(store[Head(ks)]) + SumLen(Tail(ks))

\* The keys listMatchingKeys has reported: those that matched, but for the
\* one whose action has not run yet
Reported == IF pc = "act" THEN SubSeq(matched, 1, Len(matched) - 1) ELSE matched

\* C16: the list run of the README's example.  Over a = "null",
\* b = "nullish", c = "null" with pattern "null" as an exact match and no
\* size threshold, a list run that ends without error has reported a and c
\* and not b, its summary counts 2 keys and 8 bytes, and the three keys are
\* still in the store; and in every list run matchingKeyCount and
\* matchingValuesTotalSize are the number of the keys reported and the sum
\* of the lengths of their values.
C16_EndToEndList ==
    /\ matchingKeyCount = Len(Reported)
    /\ matchingValuesTotalSize = SumLen(Reported)
    /\ initialKeys = {k \in DOMAIN store : store[k] # NoValue}
    /\ (store = E2EStore /\ search.Occurrences = 0 /\ summaries = 1 /\ err = "nil") =>
          /\ matched = <<1, 3>>
          /\ matchingKeyCount = 2
          /\ matchingValuesTotalSize = 8

C16_Witness ==
    /\ store = E2EStore /\ search.Occurrences = 0
    /\ summaries = 1 /\ err = "nil" /\ exitCode = 0
    /\ fetched = [k \in DOMAIN E2EStore |-> 1]
    /\ matched = <<1, 3>>
    /\ matchingKeyCount = 2 /\ matchingValuesTotalSize = 8

\* main has ended
Exited == exitCode # 0 - 1

\* C17: exit status.  The process exits with a status other than 0 exactly
\* when the operation returned an error; it does so when a SCAN, an EXISTS
\* or the DEL of a reconciliation pass failed, and a run in which no call
\* failed but fetches and DELs of the initial pass exits with status 0.
C17_ExitStatus ==
    Exited =>
        /\ pc = "done"
        /\ exitCode \in {0, 1}
        /\ exitCode # 0 <=> err # "nil"
        /\ (~lastCall.ok /\ lastCall.op \in {"scan", "exists", "redel"}) => exitCode # 0
        /\ (lastCall.ok \/ lastCall.op \in {"get", "del"}) => exitCode = 0

\* A purge whose DEL failed on one key and whose fetch failed on the other
C17_Witness ==
    /\ exitCode = 0 /\ mode = "purge" /\ writer = "none"
    /\ initialKeys = Keys
    /\ failedDeleteCount = 1 /\ deletedKeyCount = 0
    /\ lastCall.op = "get" /\ ~lastCall.ok

\* C18: the summary.  It is printed at most once; it has been printed
\* exactly when the process has ended, whether the operation returned nil or
\* an error; once the operation has returned, the summary has been printed
\* or is the next step; and after it the tool makes no call on the store
\* and runs no reconciliation pass, no step at all being left.
C18_SummaryOnce ==
    /\ summaries \in {0, 1}
    /\ summaries = 1 <=> Exited
    /\ pc = "done" => (summaries = 1 \/ ENABLED Finish)
    /\ summaries = 1 => (pc = "done" /\ ~ENABLED Next)
    /\ summaries = 0 => (pc # "done" => ~ENABLED Finish)

\* The summary of a purge that an EXISTS failure ended in its second pass
C18_Witness ==
    /\ summaries = 1 /\ mode = "repurge"
    /\ err = "exists" /\ exitCode = 1
    /\ lastCall.op = "exists" /\ ~lastCall.ok
    /\ deletePass = 2

\* Number of passes at the end of log in which no key was found
TrailingClean(log) ==
    CHOOSE n \in 0..Len(log) :
        /\ \A i \in (Len(log) - n + 1)..Len(log) : ~log[i]
        /\ n = Len(log) \/ log[Len(log) - n]

\* deleteKeys is running, or an error has ended it
InPass == pc \in {"exists", "redel"} \/ (pc = "done" /\ err \in {"exists", "delete"})

\* C19: the clean-pass counter.  It is 0 before the first pass; a pass that
\* found a key sets it to 0 and a pass that found none adds 1, so that it
\* is the number of passes since the last one that found a key; it lies
\* between 0 and deletePass; and deletePass is the number of passes
\* finished, plus one while a pass runs.
C19_CleanPassCounter ==
    /\ 0 <= cleanDeletePass /\ cleanDeletePass <= deletePass
    /\ cleanDeletePass = TrailingClean(passLog)
    /\ deletePass = Len(passLog) + (IF InPass THEN 1 ELSE 0)
    /\ pc \in {"exists", "redel"} => foundKeys = hit
    /\ passLog = <<>> => cleanDeletePass = 0

C19_Witness ==
    /\ pc = "loop"
    /\ passLog = <<FALSE, TRUE, FALSE>>
    /\ cleanDeletePass = 1 /\ deletePass = 3

\* The key of each entry of a sequence of EXISTS replies
KeysOf(cs) == [i \in DOMAIN cs |-> cs[i].key]

\* C20: a reconciliation pass covers K.  While deleteKeys runs, the keys
\* it has called EXISTS on are the first keys of deletedKeys, each once and
\* in order; the keys it has called DEL on are those of them that EXISTS
\* found, and DEL is its next call when the last EXISTS found its key; after
\* a key that was found and deleted the pass goes on to the next key, so
\* that a pass that ends without error has checked all of deletedKeys; and
\* no step of the reconciliation changes deletedKeys.
C20_PassCoversK ==
    /\ [](pc \in {"exists", "redel"} =>
            LET n == IF pc = "redel" THEN ki ELSE ki - 1
                before == SubSeq(checked, 1, ki - 1)
            IN  /\ n <= Len(deletedKeys)
                /\ KeysOf(checked) = SubSeq(deletedKeys, 1, n)
                /\ redeleted = KeysOf(SelectSeq(before, LAMBDA c : c.found))
                /\ pc = "redel" => checked[ki].found
                /\ (pc = "exists" /\ ki <= Len(deletedKeys)) => ENABLED ExistsReply
                /\ ENABLED EndPass <=> KeysOf(checked) = deletedKeys /\ pc = "exists")
    /\ [][Repeating => deletedKeys' = deletedKeys]_vars

\* The end of a pass that found the first of two keys and not the second
C20_Witness ==
    /\ pc = "exists" /\ ki = 3
    /\ Len(deletedKeys) = 2
    /\ checked[1].found /\ ~checked[2].found
    /\ redeleted = <<deletedKeys[1]>>
    /\ deletePass = 2

\* C21: resurrection is detected by existence alone.  A step in which
\* EXISTS is answered goes on to the DEL of the key exactly when the key is
\* in the store, whatever value it holds; that DEL can then be made; and no
\* step of the reconciliation fetches a value or applies the matcher.
C21_ExistenceOnly ==
    /\ [][(checked' # checked /\ checked' # <<>>) =>
            IF store[deletedKeys[ki]] # NoValue
            THEN pc' = "redel" /\ ki' = ki /\ foundKeys'
            ELSE pc' = "exists" /\ ki' = ki + 1 /\ foundKeys' = foundKeys]_vars
    /\ [][Repeating =>
            UNCHANGED <<fetched, matched, value, matchResult, listVars, purgeVars>>]_vars
    /\ [](pc = "redel" => ENABLED RedeleteOk)
    /\ [](Repeating => lastCall.op \in {"scan", "get", "del", "exists", "redel"})

\* A key of K found existing with a value the searchCondition rejects
C21_Witness ==
    /\ pc = "redel"
    /\ store[deletedKeys[ki]] # NoValue
    /\ ~Matcher(search, store[deletedKeys[ki]])
    /\ lastCall.op = "exists" /\ lastCall.ok

\* s lists keys in the order SCAN enumerates them: by rising slot
InScanOrder(s) == \A i, j \in DOMAIN s : i < j => s[i] < s[j]

\* The number of matched keys whose action has run
Acted == IF mode = "list" THEN matchingKeyCount ELSE Len(delLog)

\* C22: strict sequential order.  The keys of a page are fetched one at a
\* time in the order of the page: those before the index have been fetched,
\* those after it have not.  When a key has matched, its action is the next
\* step and it is the only key matched and not yet acted on; when a fetch
\* or a SCAN is next, every matched key has been acted on.  The matched
\* keys, the DEL calls and deletedKeys list the same keys in the same order,
\* which is the order of the enumeration.
C22_SequentialOrder ==
    /\ InScanOrder(keys) /\ InScanOrder(matched)
    /\ pc \in {"fetch", "act"} =>
          /\ idx \in DOMAIN keys
          /\ \A j \in DOMAIN keys : j < idx => fetched[keys[j]] = 1
          /\ \A j \in DOMAIN keys : j > idx => fetched[keys[j]] = 0
          /\ fetched[keys[idx]] = (IF pc = "act" THEN 1 ELSE 0)
    /\ pc = "act" =>
          /\ Acted = Len(matched) - 1
          /\ matched[Len(matched)] = keys[idx]
    /\ pc # "act" => Acted = Len(matched)
    /\ mode # "list" =>
          /\ KeysOf(delLog) = SubSeq(matched, 1, Len(delLog))
          /\ deletedKeys = KeysOf(delLog)

\* One page held both keys: the first was deleted before the second was
\* fetched, and the second has matched and is about to be deleted
C22_Witness ==
    /\ pc = "act" /\ mode = "purge"
    /\ keys = <<1, 2>> /\ idx = 2
    /\ matched = <<1, 2>>
    /\ deletedKeys = <<1>>
    /\ fetched[2] = 1

\* C23 as stated: the key count is best-effort.  Whether the DBSIZE call
\* succeeded or failed, after it the tool stands before its first SCAN with
\* the error nil, and the error of a run is never that of the key count.
C23_CountBestEffort ==
    /\ lastCall.op = "dbsize" => (pc = "scan" /\ err = "nil")
    /\ err # "count"

\* C24: the empty pattern is a size filter.  With the empty pattern the
\* matcher returns true exactly on the values at least SizeThreshold long,
\* whether Occurrences is zero, positive or negative.
C24_EmptyPattern ==
    (Matched /\ search.Search = <<>>) =>
        (matchResult = <<TRUE>> <=> Len(value) >= search.SizeThreshold)

\* A one-byte value matched with four occurrences required
C24_Witness ==
    /\ matchResult = <<TRUE>>
    /\ search.Search = <<>> /\ search.Occurrences = 4
    /\ search.SizeThreshold = 1 /\ value = <<1>>

\* The keys of deletedKeys that are in the store
Present == {k \in Range(deletedKeys) : store[k] # NoValue}

\* C25 as stated: when repeatDeleteKeys returns nil, no key of deletedKeys
\* is in the store, whatever the other clients did.
C25_SuccessMeansDeleted == ReturnedNil => Present = {}

\* C25, amended: when repeatDeleteKeys returns nil with a threshold of at
\* least 1, every key of deletedKeys was missing at its EXISTS in each of
\* the last minCleanDeletePasses passes, and a key of deletedKeys can be in
\* the store only if another client wrote to the store during the run: with
\* no such write, also the keys whose first DEL failed are gone.
C25_SuccessMeansChecked ==
    (ReturnedNil /\ minCleanDeletePasses >= 1) =>
        /\ Len(passLog) >= minCleanDeletePasses
        /\ \A i \in DOMAIN passLog :
              i > Len(passLog) - minCleanDeletePasses => ~passLog[i]
        /\ Present # {} => (writer = "any" /\ writes >= 1)

\* Both first DELs failed, no other client wrote, and the keys are gone
C25_Witness ==
    /\ ReturnedNil /\ minCleanDeletePasses >= 1
    /\ writer = "none"
    /\ Len(deletedKeys) = 2 /\ failedDeleteCount = 2
    /\ Present = {}
    /\ passLog[1]

\* C26: the counters of a purge.  deletedKeyCount and failedDeleteCount are
\* the numbers of DEL calls of the initial pass that succeeded and failed;
\* their sum is the number of matched keys acted on, which is the length of
\* deletedKeys; a DEL that succeeded adds the length of the fetched value to
\* deletedValuesTotalSize and one that failed adds nothing; and no other
\* step, in particular none of the reconciliation, changes any of them.
C26_PurgeCounters ==
    /\ [](/\ deletedKeyCount = Cardinality({i \in DOMAIN delLog : delLog[i].ok})
          /\ failedDeleteCount = Cardinality({i \in DOMAIN delLog : ~delLog[i].ok})
          /\ deletedKeyCount + failedDeleteCount = Len(deletedKeys)
          /\ mode # "list" => Len(deletedKeys) = Acted
          /\ delLog = <<>> => deletedValuesTotalSize = 0)
    /\ [][delLog' # delLog =>
            deletedValuesTotalSize' = deletedValuesTotalSize +
                (IF delLog'[Len(delLog')].ok THEN Len(value) ELSE 0)]_vars
    /\ [][(delLog' = delLog \/ Repeating) => UNCHANGED purgeVars]_vars

\* A pass has deleted again the key whose first DEL failed
C26_Witness ==
    /\ pc = "exists" /\ mode = "repurge"
    /\ redeleted # <<>>
    /\ Len(deletedKeys) = 2
    /\ deletedKeyCount = 1 /\ failedDeleteCount = 1
    /\ deletedValuesTotalSize = 2

\* repeatDeleteKeys has read CLEAN_DELETE_MIN
Entered ==
    /\ mode = "repurge"
    /\ pc \in {"loop", "exists", "redel"} \/ (pc = "done" /\ err \notin {"count", "scan"})

\* C27: a threshold of zero or less.  Once repeatDeleteKeys has read a
\* CLEAN_DELETE_MIN <= 0, it stands at the head of its loop with the exit
\* as its only step, or has returned nil: no pass was started, no EXISTS and
\* no DEL of a reconciliation was called, and the store is as the initial
\* pass left it, with the keys whose DEL failed still in it.
C27_NoPass ==
    (Entered /\ minCleanDeletePasses <= 0) =>
        /\ pc \in {"loop", "done"} /\ err = "nil"
        /\ deletePass = 0 /\ cleanDeletePass = 0
        /\ passLog = <<>> /\ checked = <<>> /\ redeleted = <<>>
        /\ lastCall.op \notin {"exists", "redel"}
        /\ pc = "loop" => (ENABLED LoopExit /\ ~ENABLED PassStart)
        /\ writer = "none" =>
              Present = {delLog[i].key : i \in {j \in DOMAIN delLog : ~delLog[j].ok}}

\* Success with a key whose DEL failed still in the store
C27_Witness ==
    /\ ReturnedNil /\ exitCode = 0
    /\ minCleanDeletePasses = 0
    /\ writer = "none"
    /\ failedDeleteCount = 1
    /\ Present # {}

====
